---- MODULE Spec2Model ----
(***************************************************************************)
(* Byte-pair encoding (src/BPE.py, class BytePairEncoding).                *)
(*                                                                         *)
(* A Python str is a sequence of one-character strings; a symbol is a str. *)
(* A Python dict is a sequence of [key, val] records in insertion order.   *)
(* The corpus and a text are held as the word list that                    *)
(* nltk.wordpunct_tokenize returns for them (the pattern \w+|[^\w\s]+):    *)
(* every word is a non-empty run of word characters or a non-empty run of  *)
(* punctuation characters.                                                 *)
(***************************************************************************)
EXTENDS Integers, Sequences, FiniteSets, TLC

VARIABLES corpus, lower_case, num_merges, pc, i, vocab, prev_vocab,
          pairs_pattern, pattern_find, pattern, self_vocab, stoi, itos,
          text, word_tokenization, tokens, converted_tokens, decoded,
          run, first_vocab, saved_dict

vars == <<corpus, lower_case, num_merges, pc, i, vocab, prev_vocab,
          pairs_pattern, pattern_find, pattern, self_vocab, stoi, itos,
          text, word_tokenization, tokens, converted_tokens, decoded,
          run, first_vocab, saved_dict>>

(***************************************************************************)
(* Bounds of the model.                                                    *)
(***************************************************************************)
MaxWordLen == 3
MaxCorpusWords == 2
MaxCorpusChars == 3
MaxMerges == 3
MaxTextWords == 2
MaxTextChars == 2
MaxSyms == 3
MaxTable == 2
MaxCount == 2
MaxSteps == 2
MaxEntries == 3

(***************************************************************************)
(* Characters.                                                             *)
(***************************************************************************)
EOW_TOKEN == <<"<", "/", "w", ">">>
UNK_TOKEN == <<"<", "U", "N", "K", ">">>
PAD_TOKEN == <<"<", "P", "A", "D", ">">>

\* Characters of the class \w and of the class [^\w\s] that texts are drawn from.
WordChars == {"a", "A"}
PunctChars == {"/", "\\"}
AsciiLetters == {"a", "A", "w", "U", "N", "K", "P", "D"}

IsSpace(c) == c = " "

\* str.lower() on one character.
LowerChar(c) == IF c = "A" THEN "a" ELSE c

\* str.lower()
Lower(s) == [k \in 1..Len(s) |-> LowerChar(s[k])]

\* The value None, where a str is expected: a merged symbol is never empty.
None == <<>>

SeqsUpTo(S, n) == UNION {[1..k -> S] : k \in 0..n}

ToSet(s) == {s[k] : k \in 1..Len(s)}

(***************************************************************************)
(* str operations.                                                         *)
(***************************************************************************)
\* sep.join(parts)
Join(sep, parts) ==
    LET F[k \in 0..Len(parts)] ==
            IF k = 0 THEN <<>>
            ELSE IF k = 1 THEN parts[1]
            ELSE F[k - 1] \o sep \o parts[k]
    IN  F[Len(parts)]

\* "".join(parts)
Concat(parts) == Join(<<>>, parts)

\* list(word): the characters of a str, each a one-character str.
CharList(s) == [k \in 1..Len(s) |-> <<s[k]>>]

RECURSIVE SplitFrom(_, _, _, _)
SplitFrom(s, k, cur, acc) ==
    IF k > Len(s) THEN (IF cur = <<>> THEN acc ELSE Append(acc, cur))
    ELSE IF IsSpace(s[k])
         THEN SplitFrom(s, k + 1, <<>>, IF cur = <<>> THEN acc ELSE Append(acc, cur))
         ELSE SplitFrom(s, k + 1, Append(cur, s[k]), acc)

\* s.split(): the maximal runs of non-whitespace characters.
Split(s) == SplitFrom(s, 1, <<>>, <<>>)

\* s[k:k+len(lit)] == lit
LiteralAt(s, k, lit) ==
    /\ k + Len(lit) - 1 <= Len(s)
    /\ \A j \in 1..Len(lit) : s[k + j - 1] = lit[j]

RECURSIVE SplitOnFrom(_, _, _, _, _)
SplitOnFrom(s, k, sep, cur, acc) ==
    IF k > Len(s) THEN Append(acc, cur)
    ELSE IF LiteralAt(s, k, sep)
         THEN SplitOnFrom(s, k + Len(sep), sep, <<>>, Append(acc, cur))
         ELSE SplitOnFrom(s, k + 1, sep, Append(cur, s[k]), acc)

\* s.split(sep): the pieces between the occurrences of sep, empty ones kept.
SplitOn(s, sep) == SplitOnFrom(s, 1, sep, <<>>, <<>>)

\* The index of the first occurrence of lit in s, 0 when there is none.
FindFirst(s, lit) ==
    LET hits == {k \in 1..Len(s) : LiteralAt(s, k, lit)}
    IN  IF hits = {} THEN 0 ELSE CHOOSE k \in hits : \A h \in hits : k <= h

(***************************************************************************)
(* re.sub(r"(?<!\S)" + re.escape(lit) + r"(?!\S)", repl, s)                *)
(***************************************************************************)
\* lit occurs at k, not preceded and not followed by a non-whitespace character.
BoundaryMatchAt(s, k, lit) ==
    /\ LiteralAt(s, k, lit)
    /\ (k = 1 \/ IsSpace(s[k - 1]))
    /\ (k + Len(lit) > Len(s) \/ IsSpace(s[k + Len(lit)]))

RECURSIVE SubFrom(_, _, _, _, _)
SubFrom(s, k, lit, out, acc) ==
    IF k > Len(s) THEN acc
    ELSE IF BoundaryMatchAt(s, k, lit)
         THEN SubFrom(s, k + Len(lit), lit, out, acc \o out)
         ELSE SubFrom(s, k + 1, lit, out, Append(acc, s[k]))

RECURSIVE TemplateFrom(_, _, _)
TemplateFrom(t, k, acc) ==
    IF k > Len(t) THEN [ok |-> TRUE, val |-> acc]
    ELSE IF t[k] # "\\" THEN TemplateFrom(t, k + 1, Append(acc, t[k]))
    ELSE IF k = Len(t) THEN [ok |-> FALSE, val |-> <<>>]
    ELSE IF t[k + 1] = "\\" THEN TemplateFrom(t, k + 2, Append(acc, "\\"))
    ELSE IF t[k + 1] = "a" THEN TemplateFrom(t, k + 2, Append(acc, "BEL"))
    ELSE IF t[k + 1] \in AsciiLetters THEN [ok |-> FALSE, val |-> <<>>]
    ELSE TemplateFrom(t, k + 2, acc \o <<"\\", t[k + 1]>>)

\* The replacement template of re.sub: a backslash escapes the next character.
\* \\ is one backslash, \a is BEL, a backslash before another ASCII letter or at
\* the end is re.error, a backslash before punctuation is kept with it.
Template(repl) == TemplateFrom(repl, 1, <<>>)

\* re.sub with the template compiled first: an error whether or not lit occurs.
ReSub(lit, repl, s) ==
    LET t == Template(repl)
    IN  IF t.ok THEN [ok |-> TRUE, val |-> SubFrom(s, 1, lit, t.val, <<>>)]
        ELSE [ok |-> FALSE, val |-> s]

\* re.escape(token) for the one token it is applied to, a single backslash.
ReEscape(token) == IF token = <<"\\">> THEN <<"\\", "\\">> ELSE token

(***************************************************************************)
(* dict operations.                                                        *)
(***************************************************************************)
DictHas(d, key) == \E j \in 1..Len(d) : d[j].key = key

DictGet(d, key) == (CHOOSE j \in 1..Len(d) : d[j].key = key)

\* d[key] = val: a key already present keeps its place.
DictSet(d, key, val) ==
    IF DictHas(d, key)
    THEN [j \in 1..Len(d) |-> IF d[j].key = key THEN [key |-> key, val |-> val] ELSE d[j]]
    ELSE Append(d, [key |-> key, val |-> val])

\* d[key] += n on a defaultdict(int)
DictAdd(d, key, n) ==
    IF DictHas(d, key) THEN DictSet(d, key, d[DictGet(d, key)].val + n)
    ELSE DictSet(d, key, n)

\* sorted(items, key=..., reverse=True) with keys[k] the key of items[k]: stable,
\* items of equal key keep their order.
SortedDesc(items, keys) ==
    LET Insert(sorted, j) ==
            LET p == Cardinality({m \in 1..Len(sorted) : keys[sorted[m]] >= keys[j]})
            IN  SubSeq(sorted, 1, p) \o <<j>> \o SubSeq(sorted, p + 1, Len(sorted))
        F[k \in 0..Len(items)] ==
            IF k = 0 THEN <<>> ELSE Insert(F[k - 1], k)
    IN  [n \in 1..Len(items) |-> items[F[Len(items)][n]]]

(***************************************************************************)
(* BytePairEncoding: preprocessing and the BPE helper functions.           *)
(***************************************************************************)
\* The word list of the corpus read by __init__, lower-cased when lower_case.
LoadCorpus(raw, lc) == IF lc THEN [k \in 1..Len(raw) |-> Lower(raw[k])] ELSE raw

\* " ".join(list(word) + [self.EOW_TOKEN])
WordRepr(word) == Join(<<" ">>, Append(CharList(word), EOW_TOKEN))

split_into_words_and_create_vocab(split_string) ==
    LET F[k \in 0..Len(split_string)] ==
            IF k = 0 THEN <<>>
            ELSE DictAdd(F[k - 1], WordRepr(split_string[k]), 1)
    IN  F[Len(split_string)]

\* count_pairs adding 1 for a pair where it adds the word's count.
CountWordPairs_IgnoreFreq(acc, word, freq) ==
    LET syms == Split(word)
        F[k \in 0..Len(syms)] ==
            IF k <= 1 THEN acc
            ELSE DictAdd(F[k - 1], <<syms[k - 1], syms[k]>>, 1)
    IN  F[Len(syms)]

\* The inner loop of count_pairs over one word: every idx in range(len - 1).
CountWordPairs(acc, word, freq) ==
    LET syms == Split(word)
        F[k \in 0..Len(syms)] ==
            IF k <= 1 THEN acc
            ELSE DictAdd(F[k - 1], <<syms[k - 1], syms[k]>>, freq)
    IN  F[Len(syms)]

PairFreq(item) == item.val

\* pairs_pattern before it is sorted: the pairs in the order they are first met.
PairsInOrder(table) ==
    LET F[k \in 0..Len(table)] ==
            IF k = 0 THEN <<>>
            ELSE CountWordPairs(F[k - 1], table[k].key, table[k].val)
    IN  F[Len(table)]

\* dict(sorted(pairs_pattern.items(), key=lambda x: x[1], reverse=True))
SortedByFreq(pairs) == SortedDesc(pairs, [k \in 1..Len(pairs) |-> PairFreq(pairs[k])])

\* count_pairs returning the pairs in the order met, unsorted.
count_pairs_Unsorted(table) == PairsInOrder(table)

count_pairs(table) == SortedByFreq(PairsInOrder(table))

RECURSIVE MergeWordsFrom(_, _, _, _, _)
MergeWordsFrom(table, k, bigram, merged, acc) ==
    IF k > Len(table) THEN [ok |-> TRUE, val |-> acc]
    ELSE LET r == ReSub(bigram, merged, table[k].key)
         IN  IF ~r.ok THEN [ok |-> FALSE, val |-> <<>>]
             ELSE MergeWordsFrom(table, k + 1, bigram, merged,
                                 DictAdd(acc, r.val, table[k].val))

\* The loop of perform_merge over the words: merged_vocab[repl] += freq, and the
\* re.error of re.sub leaves the call.
MergeWords(table, bigram, merged) == MergeWordsFrom(table, 1, bigram, merged, <<>>)

RECURSIVE OverwriteWordsFrom(_, _, _, _, _)
OverwriteWordsFrom(table, k, bigram, merged, acc) ==
    IF k > Len(table) THEN [ok |-> TRUE, val |-> acc]
    ELSE LET r == ReSub(bigram, merged, table[k].key)
         IN  IF ~r.ok THEN [ok |-> FALSE, val |-> <<>>]
             ELSE OverwriteWordsFrom(table, k + 1, bigram, merged,
                                     DictSet(acc, r.val, table[k].val))

\* perform_merge with merged_vocab[repl] = freq where it has +=.
perform_merge_Overwrite(table, pairs) ==
    IF Len(pairs) = 0 THEN [ok |-> TRUE, vocab |-> table, find |-> None, pattern |-> None]
    ELSE LET first == pairs[1].key
             bigram == Join(<<" ">>, <<first[1], first[2]>>)
             merged == Concat(<<first[1], first[2]>>)
             m == OverwriteWordsFrom(table, 1, bigram, merged, <<>>)
         IN  IF m.ok THEN [ok |-> TRUE, vocab |-> m.val, find |-> first, pattern |-> merged]
             ELSE [ok |-> FALSE, vocab |-> table, find |-> first, pattern |-> None]

perform_merge(table, pairs) ==
    IF Len(pairs) = 0 THEN [ok |-> TRUE, vocab |-> table, find |-> None, pattern |-> None]
    ELSE LET first == pairs[1].key
             bigram == Join(<<" ">>, <<first[1], first[2]>>)
             merged == Concat(<<first[1], first[2]>>)
             m == MergeWords(table, bigram, merged)
         IN  IF m.ok THEN [ok |-> TRUE, vocab |-> m.val, find |-> first, pattern |-> merged]
             ELSE [ok |-> FALSE, vocab |-> table, find |-> first, pattern |-> None]

\* The tokens create_vocab collects, in order, before list(set(vocab)).
VocabTokens(table) ==
    LET F[k \in 0..Len(table)] ==
            IF k = 0 THEN <<>> ELSE F[k - 1] \o Split(table[k].key)
    IN  F[Len(table)]

\* list(set(vocab)): the distinct tokens in the iteration order of a set of str,
\* which the per-process hash seed decides: any order.
create_vocab(table) ==
    LET S == ToSet(VocabTokens(table))
    IN  {p \in [1..Cardinality(S) -> S] : \A a, b \in 1..Cardinality(S) : p[a] = p[b] => a = b}

\* itos = {i: vocab[i]}
MakeItos(list) == [n \in 0..(Len(list) - 1) |-> list[n + 1]]

\* stoi = {vocab[i]: i}: the last index of a repeated symbol stays.
MakeStoi(list) ==
    [s \in ToSet(list) |->
        CHOOSE n \in 0..(Len(list) - 1) :
            /\ list[n + 1] = s
            /\ \A m \in 0..(Len(list) - 1) : list[m + 1] = s => m <= n]

(***************************************************************************)
(* Training: create_vocab_and_tokenization(num_merges).                    *)
(***************************************************************************)
Letters(S) == {w \in SeqsUpTo(S, MaxWordLen) : Len(w) >= 1}

\* What wordpunct_tokenize can return as one word.
Words == Letters(WordChars) \cup Letters(PunctChars)

RECURSIVE TotalLen(_)
TotalLen(ws) == IF ws = <<>> THEN 0 ELSE Len(Head(ws)) + TotalLen(Tail(ws))

Corpora == {c \in SeqsUpTo(Words, MaxCorpusWords) : TotalLen(c) <= MaxCorpusChars}

Idle ==
    /\ text = <<>> /\ word_tokenization = <<>> /\ tokens = <<>>
    /\ converted_tokens = <<>> /\ decoded = <<>>
    /\ run = 1 /\ first_vocab = <<>> /\ saved_dict = <<>>

Init ==
    /\ lower_case \in BOOLEAN
    /\ \E raw \in Corpora : corpus = LoadCorpus(raw, lower_case)
    /\ num_merges \in 0..MaxMerges
    /\ pc = "start"
    /\ i = 0
    /\ vocab = <<>> /\ prev_vocab = <<>> /\ pairs_pattern = <<>> /\ pattern_find = None /\ pattern = None
    /\ self_vocab = <<>> /\ stoi = <<>> /\ itos = <<>>
    /\ Idle

\* perform_BPE up to its loop: the frequency table and the base vocabulary.
BPEStart ==
    /\ pc = "start"
    /\ vocab' = split_into_words_and_create_vocab(corpus)
    /\ self_vocab' \in create_vocab(vocab')
    /\ i' = 0
    /\ prev_vocab' = vocab'
    /\ pc' = "loop"
    /\ UNCHANGED <<corpus, lower_case, num_merges, pairs_pattern, pattern_find, pattern, stoi, itos,
                   text, word_tokenization, tokens, converted_tokens, decoded,
                   run, first_vocab, saved_dict>>

\* One pass of the loop of perform_BPE: count_pairs, perform_merge, append.
BPEIter ==
    /\ pc = "loop"
    /\ i < num_merges
    /\ \E pairs \in {count_pairs(vocab)} :
       \E r \in {perform_merge(vocab, pairs)} :
           /\ pairs_pattern' = pairs
           /\ prev_vocab' = vocab
           /\ vocab' = r.vocab
           /\ pattern' = r.pattern
           /\ pattern_find' = r.find
           /\ IF r.ok
              THEN /\ self_vocab' = IF r.pattern # None THEN Append(self_vocab, r.pattern)
                                    ELSE self_vocab
                   /\ i' = i + 1
                   /\ pc' = "loop"
              ELSE /\ self_vocab' = self_vocab
                   /\ i' = i
                   /\ pc' = "error"
    /\ UNCHANGED <<corpus, lower_case, num_merges, stoi, itos,
                   text, word_tokenization, tokens, converted_tokens, decoded,
                   run, first_vocab, saved_dict>>

\* The end of perform_BPE and create_tokenization: the reserved symbols, the maps.
BPEFinish ==
    /\ pc = "loop"
    /\ i = num_merges
    /\ self_vocab' = self_vocab \o <<UNK_TOKEN, PAD_TOKEN>>
    /\ stoi' = MakeStoi(self_vocab')
    /\ itos' = MakeItos(self_vocab')
    /\ pc' = "trained"
    /\ UNCHANGED <<corpus, lower_case, num_merges, i, vocab, prev_vocab, pairs_pattern,
                   pattern_find, pattern, text, word_tokenization, tokens, converted_tokens, decoded,
                   run, first_vocab, saved_dict>>

(***************************************************************************)
(* tokenize and tokens_to_str.                                             *)
(***************************************************************************)
TokenLen(token) == Len(token)

\* The pattern tokenize builds from a token: re.split(f"({EOW})", token) gives
\* more than one piece exactly when the marker occurs in the token, and then the
\* characters before its first occurrence are followed by the marker.
TokenPattern(token) ==
    LET p == FindFirst(token, EOW_TOKEN)
    IN  IF p > 0
        THEN Join(<<" ">>, Append(CharList(SubSeq(token, 1, p - 1)), EOW_TOKEN))
        ELSE Join(<<" ">>, CharList(token))

\* One re.sub of the loop over the vocabulary.
ApplyToken(word, token) ==
    LET pat == TokenPattern(token)
    IN  IF pat = <<"\\">> THEN ReSub(pat, ReEscape(token), word)
        ELSE ReSub(pat, token, word)

RECURSIVE ApplyTokens(_, _, _)
ApplyRest(r, order, k) == IF r.ok THEN ApplyTokens(r.val, order, k + 1) ELSE r

ApplyTokens(word, order, k) ==
    IF k > Len(order) THEN [ok |-> TRUE, val |-> word]
    ELSE ApplyRest(ApplyToken(word, order[k]), order, k)

\* The loop over sorted(self.vocab, key=len, reverse=True) for one word.
TokenizeWord(word, list) ==
    ApplyTokens(word, SortedDesc(list, [k \in 1..Len(list) |-> TokenLen(list[k])]), 1)

RECURSIVE SplitAndMergeFrom(_, _, _, _, _)
SplitAndMergeFrom(words, k, lc, list, acc) ==
    IF k > Len(words) THEN [ok |-> TRUE, val |-> acc]
    ELSE LET w == IF lc THEN Lower(words[k]) ELSE words[k]
             r == TokenizeWord(WordRepr(w), list)
         IN  IF ~r.ok THEN [ok |-> FALSE, val |-> <<>>]
             ELSE SplitAndMergeFrom(words, k + 1, lc, list, acc \o Split(r.val))

\* word_tokenization before the unknown symbols are replaced.
SplitAndMerge(words, lc, list) == SplitAndMergeFrom(words, 1, lc, list, <<>>)

\* tokenize without the replacement of unknown symbols.
ReplaceUnknown_Keep(syms, map) == syms

\* i if i in self.stoi.keys() else self.UNK_TOKEN
ReplaceUnknown(syms, map) ==
    [k \in 1..Len(syms) |-> IF syms[k] \in DOMAIN map THEN syms[k] ELSE UNK_TOKEN]

\* [self.stoi[i] for i in word_tokenization]: a missing key is a KeyError.
ConvertTokens(syms, map) ==
    IF \A k \in 1..Len(syms) : syms[k] \in DOMAIN map
    THEN [ok |-> TRUE, val |-> [k \in 1..Len(syms) |-> map[syms[k]]]]
    ELSE [ok |-> FALSE, val |-> <<>>]

tokens_to_str(ids, map) ==
    LET concat_str == Concat([k \in 1..Len(ids) |-> map[ids[k]]])
    IN  Join(<<" ">>, SplitOn(concat_str, EOW_TOKEN))

Texts == {t \in SeqsUpTo(Words, MaxTextWords) : TotalLen(t) <= MaxTextChars}

Tokenize ==
    /\ pc = "trained"
    /\ \E t \in Texts :
        \E r \in {SplitAndMerge(t, lower_case, self_vocab)} :
        \E known \in {ReplaceUnknown(r.val, stoi)} :
        \E ids \in {ConvertTokens(known, stoi)} :
            /\ text' = t
            /\ word_tokenization' = r.val
            /\ tokens' = IF r.ok /\ ids.ok THEN known ELSE <<>>
            /\ converted_tokens' = IF r.ok THEN ids.val ELSE <<>>
            /\ pc' = IF r.ok /\ ids.ok THEN "tokenized" ELSE "tokenize_error"
    /\ UNCHANGED <<corpus, lower_case, num_merges, i, vocab, prev_vocab, pairs_pattern,
                   pattern_find, pattern, self_vocab, stoi, itos, decoded, run, first_vocab, saved_dict>>

TokensToStr ==
    /\ pc = "tokenized"
    /\ decoded' = tokens_to_str(converted_tokens, itos)
    /\ pc' = "decoded"
    /\ UNCHANGED <<corpus, lower_case, num_merges, i, vocab, prev_vocab, pairs_pattern,
                   pattern_find, pattern, self_vocab, stoi, itos, text, word_tokenization, tokens,
                   converted_tokens, run, first_vocab, saved_dict>>

Next == BPEStart \/ BPEIter \/ BPEFinish \/ Tokenize \/ TokensToStr

Spec == Init /\ [][Next]_vars

(***************************************************************************)
(* Training a second time on the same corpus with the same arguments.      *)
(***************************************************************************)
Retrain ==
    /\ pc = "trained"
    /\ run = 1
    /\ run' = 2
    /\ first_vocab' = self_vocab
    /\ pc' = "start"
    /\ i' = 0
    /\ UNCHANGED <<corpus, lower_case, num_merges, vocab, prev_vocab, pairs_pattern,
                   pattern_find, pattern, self_vocab, stoi, itos, text, word_tokenization, tokens,
                   converted_tokens, decoded, saved_dict>>

NextTwice == BPEStart \/ BPEIter \/ BPEFinish \/ Retrain

SpecTwice == Init /\ [][NextTwice]_vars

(***************************************************************************)
(* count_pairs and perform_merge on any frequency table.                   *)
(***************************************************************************)
Symbols == {<<"a">>, <<"A">>, <<"A", "a">>, <<"\\">>}

\* Word representations: one to MaxSyms symbols and the end-of-word marker.
TableWords ==
    {Join(<<" ">>, Append(b, EOW_TOKEN)) : b \in (SeqsUpTo(Symbols, MaxSyms) \ {<<>>})}

Tables ==
    {t \in SeqsUpTo([key : TableWords, val : 1..MaxCount], MaxTable) :
        \A a, b \in 1..Len(t) : t[a].key = t[b].key => a = b}

InitMerge ==
    /\ vocab \in Tables
    /\ pc = "count"
    /\ i = 0
    /\ corpus = <<>> /\ lower_case = FALSE /\ num_merges = MaxSteps
    /\ prev_vocab = <<>> /\ pairs_pattern = <<>> /\ pattern_find = None /\ pattern = None
    /\ self_vocab = <<>> /\ stoi = <<>> /\ itos = <<>>
    /\ Idle

CountPairs ==
    /\ pc = "count"
    /\ i < num_merges
    /\ pairs_pattern' = count_pairs(vocab)
    /\ pc' = "merge"
    /\ UNCHANGED <<corpus, lower_case, num_merges, i, vocab, prev_vocab, pattern_find, pattern,
                   self_vocab, stoi, itos, text, word_tokenization, tokens,
                   converted_tokens, decoded, run, first_vocab, saved_dict>>

PerformMerge ==
    /\ pc = "merge"
    /\ \E r \in {perform_merge(vocab, pairs_pattern)} :
           /\ prev_vocab' = vocab
           /\ vocab' = r.vocab
           /\ pattern' = r.pattern
           /\ pattern_find' = r.find
           /\ pc' = IF r.ok THEN "count" ELSE "error"
    /\ i' = i + 1
    /\ UNCHANGED <<corpus, lower_case, num_merges, pairs_pattern,
                   self_vocab, stoi, itos, text, word_tokenization, tokens,
                   converted_tokens, decoded, run, first_vocab, saved_dict>>

NextMerge == CountPairs \/ PerformMerge

SpecMerge == InitMerge /\ [][NextMerge]_vars

(***************************************************************************)
(* load_tokenization on any persisted mapping.                             *)
(***************************************************************************)
DigitChars == {"0", "1", "2"}

DigitValue(c) == IF c = "0" THEN 0 ELSE IF c = "1" THEN 1 ELSE 2

\* int(k) of a str of decimal digits; -1 stands for the ValueError of any other.
ParseInt(k) ==
    LET F[n \in 0..Len(k)] == IF n = 0 THEN 0 ELSE 10 * F[n - 1] + DigitValue(k[n])
    IN  IF Len(k) > 0 /\ \A n \in 1..Len(k) : k[n] \in DigitChars THEN F[Len(k)] ELSE -1

\* The keys and the symbols of the persisted mappings that are drawn.
FileKeys == {<<"0">>, <<"1">>, <<"2">>, <<"0", "1">>, <<"x">>}
FileSymbols == {<<"a">>, UNK_TOKEN}

\* What json.load returns: a dict from str to str, its keys distinct.
Files ==
    {d \in SeqsUpTo([key : FileKeys, val : FileSymbols], MaxEntries) :
        \A a, b \in 1..Len(d) : d[a].key = d[b].key => a = b}

\* The last index at which a sequence of booleans is true.
LastTrue(flags) ==
    CHOOSE j \in 1..Len(flags) : flags[j] /\ \A m \in 1..Len(flags) : flags[m] => m <= j

\* {int(k): v for k, v in saved_dict.items()}: the last of two equal ids stays.
LoadItos(d) ==
    [n \in {ParseInt(d[j].key) : j \in 1..Len(d)} |->
        d[LastTrue([j \in 1..Len(d) |-> ParseInt(d[j].key) = n])].val]

\* {v: int(k) for k, v in saved_dict.items()}
LoadStoi(d) ==
    [v \in {d[j].val : j \in 1..Len(d)} |->
        ParseInt(d[LastTrue([j \in 1..Len(d) |-> d[j].val = v])].key)]

\* list(saved_dict.values())
LoadVocab(d) == [j \in 1..Len(d) |-> d[j].val]

InitLoad ==
    /\ pc = "created"
    /\ saved_dict = <<>>
    /\ corpus = <<>> /\ lower_case = FALSE /\ num_merges = 0 /\ i = 0
    /\ vocab = <<>> /\ prev_vocab = <<>> /\ pairs_pattern = <<>>
    /\ pattern_find = None /\ pattern = None
    /\ self_vocab = <<>> /\ stoi = <<>> /\ itos = <<>>
    /\ text = <<>> /\ word_tokenization = <<>> /\ tokens = <<>>
    /\ converted_tokens = <<>> /\ decoded = <<>>
    /\ run = 1 /\ first_vocab = <<>>

load_tokenization ==
    /\ pc = "created"
    /\ \E d \in Files :
        /\ saved_dict' = d
        /\ IF \E j \in 1..Len(d) : ParseInt(d[j].key) < 0
           THEN /\ pc' = "load_error"
                /\ UNCHANGED <<itos, stoi, self_vocab>>
           ELSE /\ itos' = LoadItos(d)
                /\ stoi' = LoadStoi(d)
                /\ self_vocab' = LoadVocab(d)
                /\ pc' = "loaded"
    /\ UNCHANGED <<corpus, lower_case, num_merges, i, vocab, prev_vocab, pairs_pattern,
                   pattern_find, pattern, text, word_tokenization, tokens,
                   converted_tokens, decoded, run, first_vocab>>

NextLoad == load_tokenization

SpecLoad == InitLoad /\ [][NextLoad]_vars

(***************************************************************************)
(* Properties.                                                             *)
(***************************************************************************)
\* The adjacent symbol pairs of one word representation, left to right.
WordPairs(word) ==
    LET syms == Split(word) IN [k \in 1..(Len(syms) - 1) |-> <<syms[k], syms[k + 1]>>]

\* Every adjacent pair of the table: words in key order, symbols left to right.
RECURSIVE ScanPairs(_)
ScanPairs(table) ==
    IF table = <<>> THEN <<>> ELSE WordPairs(Head(table).key) \o ScanPairs(Tail(table))

OccurrencesIn(syms, p) ==
    Cardinality({k \in 1..(Len(syms) - 1) : syms[k] = p[1] /\ syms[k + 1] = p[2]})

Occurrences(word, p) == OccurrencesIn(Split(word), p)

\* Sum over the words of count x number of positions where the pair occurs.
RECURSIVE AggregateFreq(_, _)
AggregateFreq(table, p) ==
    IF table = <<>> THEN 0
    ELSE Head(table).val * Occurrences(Head(table).key, p) + AggregateFreq(Tail(table), p)

FirstIndex(seq, x) == CHOOSE k \in 1..Len(seq) : seq[k] = x /\ \A m \in 1..(k - 1) : seq[m] # x

RECURSIVE SumVals(_)
SumVals(d) == IF d = <<>> THEN 0 ELSE Head(d).val + SumVals(Tail(d))

\* A left-to-right scan over a list of whole symbols, fusing A followed by B.
RECURSIVE ScanMerge(_, _, _)
ScanMerge(syms, A, B) ==
    IF Len(syms) < 2 THEN syms
    ELSE IF syms[1] = A /\ syms[2] = B
         THEN <<A \o B>> \o ScanMerge(SubSeq(syms, 3, Len(syms)), A, B)
         ELSE <<syms[1]>> \o ScanMerge(Tail(syms), A, B)

RECURSIVE ScanTable(_, _, _)
ScanTable(table, A, B) ==
    IF table = <<>> THEN <<>>
    ELSE LET rest == ScanTable(SubSeq(table, 1, Len(table) - 1), A, B)
             last == table[Len(table)]
         IN  DictAdd(rest, Join(<<" ">>, ScanMerge(Split(last.key), A, B)), last.val)

Spelling(word) == Concat(Split(word))

\* C1: after a merge of the pair (A, B) the table is the one a left-to-right scan
\* over each word's whole symbols gives (A immediately followed by B becomes AB,
\* every other symbol is unchanged), and the words spell what they spelled before.
C1_MergeIsSymbolScan ==
    (pc \in {"count", "merge"} /\ pattern # None) =>
        /\ vocab = ScanTable(prev_vocab, pattern_find[1], pattern_find[2])
        /\ {Spelling(vocab[k].key) : k \in 1..Len(vocab)}
             = {Spelling(prev_vocab[k].key) : k \in 1..Len(prev_vocab)}

\* C2: the counts of the frequency table sum to the same total before and after
\* every merge step, which is the number of words of the split corpus.
C2_MassPreserved ==
    (pc # "start") =>
        /\ SumVals(vocab) = SumVals(prev_vocab)
        /\ SumVals(vocab) = Len(corpus)

\* A merge step that rewrote two distinct words to one key.
C2_Witness == pc = "loop" /\ pattern # None /\ Len(vocab) < Len(prev_vocab)

\* p occurs in the scan, no pair of the scan is more frequent than best, and no
\* pair as frequent as best is met before p.
MaxFirstIn(scan, table, p, best) ==
    /\ \E k \in 1..Len(scan) : scan[k] = p
    /\ \A k \in 1..Len(scan) :
         /\ AggregateFreq(table, scan[k]) <= best
         /\ AggregateFreq(table, scan[k]) = best => FirstIndex(scan, p) <= k

\* C3: the merged pair has the greatest aggregate frequency of the table it was
\* selected from, and among the pairs of that frequency it is the first met when
\* the words are scanned in key order and each word left to right.
C3_MaxPairFirstEncountered ==
    (pattern # None) =>
        /\ pattern = pattern_find[1] \o pattern_find[2]
        /\ MaxFirstIn(ScanPairs(prev_vocab), prev_vocab, pattern_find,
                      AggregateFreq(prev_vocab, pattern_find))

\* Another pair of the scan has the frequency best.
TiedIn(scan, table, p, best) ==
    \E k \in 1..Len(scan) : scan[k] # p /\ AggregateFreq(table, scan[k]) = best

\* A merge whose pair tied with another pair for the greatest frequency.
C3_Witness ==
    /\ pc = "loop" /\ pattern # None
    /\ TiedIn(ScanPairs(prev_vocab), prev_vocab, pattern_find,
              AggregateFreq(prev_vocab, pattern_find))

\* C4: a second training run on the same corpus with the same num_merges and
\* lower_case gives every symbol the id the first run gave it.
C4_SameVocabularyTwice ==
    (run = 2 /\ pc = "trained") =>
        /\ itos = MakeItos(first_vocab)
        /\ stoi = MakeStoi(first_vocab)

Normalized(word) == IF lower_case THEN Lower(word) ELSE word

RECURSIVE Strip(_)
Strip(s) ==
    IF s = <<>> THEN s
    ELSE IF IsSpace(s[1]) THEN Strip(Tail(s))
    ELSE IF IsSpace(s[Len(s)]) THEN Strip(SubSeq(s, 1, Len(s) - 1))
    ELSE s

\* C5: a text whose words all occur in the corpus decodes, from the ids tokenize
\* gave it, to its case-normalized words joined by single spaces.
C5_RoundTrip ==
    (pc = "decoded" /\ \A k \in 1..Len(text) : Normalized(text[k]) \in ToSet(corpus)) =>
        Strip(decoded) = Join(<<" ">>, [k \in 1..Len(text) |-> Normalized(text[k])])

\* C6: tokenize with a trained vocabulary never fails; a symbol that is no entry
\* of the vocabulary is replaced in its place by the unknown symbol, every other
\* symbol is kept, and the k-th id is the vocabulary id of the k-th symbol.
C6_UnknownFallback ==
    /\ pc # "tokenize_error"
    /\ pc \in {"tokenized", "decoded"} =>
        /\ Len(tokens) = Len(word_tokenization)
        /\ Len(converted_tokens) = Len(tokens)
        /\ \A k \in 1..Len(tokens) :
             /\ tokens[k] = IF word_tokenization[k] \in ToSet(self_vocab)
                            THEN word_tokenization[k] ELSE UNK_TOKEN
             /\ converted_tokens[k] \in 0..(Len(self_vocab) - 1)
             /\ self_vocab[converted_tokens[k] + 1] = tokens[k]

\* A tokenization with an unknown symbol between symbols of the vocabulary.
C6_Witness ==
    /\ pc = "tokenized"
    /\ \E k \in 2..Len(tokens) :
         /\ word_tokenization[k] \notin ToSet(self_vocab)
         /\ tokens[k] = UNK_TOKEN
         /\ tokens[k - 1] # UNK_TOKEN
         /\ word_tokenization[k - 1] = tokens[k - 1]

\* C7: training ends without an error, and the vocabulary it builds has the base
\* symbols, at most num_merges learned symbols and the two reserved symbols;
\* with num_merges = 0 it has the base symbols and the reserved symbols only.
C7_TrainingTerminates ==
    /\ pc # "error"
    /\ pc = "trained" =>
         /\ Len(self_vocab) <= Cardinality(ToSet(VocabTokens(
                                   split_into_words_and_create_vocab(corpus))))
                                 + num_merges + 2
         /\ num_merges = 0 =>
              ToSet(self_vocab) = ToSet(VocabTokens(split_into_words_and_create_vocab(corpus)))
                                    \cup {UNK_TOKEN, PAD_TOKEN}

\* C8: every symbol of the trained vocabulary appears in it once, the reserved
\* symbols hold the last two ids, and stoi and itos are inverse to each other.
C8_SymbolsOnce ==
    (pc = "trained") =>
        /\ \A a, b \in 1..Len(self_vocab) : self_vocab[a] = self_vocab[b] => a = b
        /\ self_vocab[Len(self_vocab) - 1] = UNK_TOKEN
        /\ self_vocab[Len(self_vocab)] = PAD_TOKEN
        /\ DOMAIN itos = 0..(Len(self_vocab) - 1)
        /\ \A s \in DOMAIN stoi : itos[stoi[s]] = s
        /\ \A n \in DOMAIN itos : stoi[itos[n]] = n

\* C9: a persisted mapping that load_tokenization installs has ids that are
\* pairwise distinct and are exactly 0..N-1, and the maps installed agree with it.
C9_LoadRejectsMalformed ==
    (pc = "loaded") =>
        /\ \A a, b \in 1..Len(saved_dict) :
             ParseInt(saved_dict[a].key) = ParseInt(saved_dict[b].key) => a = b
        /\ {ParseInt(saved_dict[k].key) : k \in 1..Len(saved_dict)}
             = 0..(Len(saved_dict) - 1)
        /\ \A k \in 1..Len(saved_dict) :
             itos[ParseInt(saved_dict[k].key)] = saved_dict[k].val

\* pairs holds the pairs over syms of positive aggregate frequency, each once,
\* with that frequency.
CountsIn(pairs, table, syms) ==
    /\ \A a, b \in 1..Len(pairs) : pairs[a].key = pairs[b].key => a = b
    /\ \A k \in 1..Len(pairs) :
         /\ pairs[k].key \in syms \X syms
         /\ pairs[k].val = AggregateFreq(table, pairs[k].key)
         /\ pairs[k].val > 0
    /\ \A p \in syms \X syms : AggregateFreq(table, p) > 0 => DictHas(pairs, p)
    /\ (\A k \in 1..Len(table) : Len(Split(table[k].key)) <= 1) => pairs = <<>>

\* C10: count_pairs maps every ordered pair of symbols that is adjacent inside
\* some word to the sum over the words of count x number of positions where it
\* occurs, and holds no other pair.
C10_CountPairs ==
    (pc = "merge") => CountsIn(pairs_pattern, vocab, ToSet(VocabTokens(vocab)))

\* A count summed over two words, with a pair across the two words left out.
C10_Witness ==
    /\ pc = "merge" /\ Len(vocab) = 2
    /\ \E k \in 1..Len(pairs_pattern) :
         /\ pairs_pattern[k].val = vocab[1].val + vocab[2].val
         /\ Occurrences(vocab[1].key, pairs_pattern[k].key) = 1
         /\ Occurrences(vocab[2].key, pairs_pattern[k].key) = 1
    /\ ~DictHas(pairs_pattern, <<EOW_TOKEN, Split(vocab[2].key)[1]>>)

====
